---- MODULE Spec2Model ----
(***************************************************************************)
(* Model of src/open-ai.py: the Streamlit semantic translator.             *)
(*                                                                         *)
(* Python strings are modelled as sequences of one-character strings, so   *)
(* that str.strip, str.lower, the `in` substring test and float() are      *)
(* computed character by character.  The remote chat-completion service is *)
(* the environment: every call in flight either returns a message content  *)
(* or raises an exception.                                                 *)
(***************************************************************************)
EXTENDS Integers, Sequences, FiniteSets, TLC

VARIABLES
    text_input,     \* st.text_area "Text to translate"
    source_lang,    \* st.text_input "Source Language"
    target_lang,    \* st.text_input "Target Language"
    model_picker,   \* st.selectbox
    custom_model,   \* st.text_input shown when the picker is on Custom
    button,         \* st.button("Translate"): TRUE in the run a click started
    phase,          \* "Idle" | "Translating" | "Validating"
    attempt,        \* 0: no call in flight, 1: first call, 2: retry
    calls,          \* requests sent to client.chat.completions.create in this run
    replies,        \* outcome of each answered request, parallel to calls
    translated,     \* value returned by semantic_translate, or None
    score,          \* value returned by validate_semantics, or NoScore
    caught,         \* exception caught by the trigger's except clause, or NoExc
    out             \* elements rendered on the page by this run of the script

vars == <<text_input, source_lang, target_lang, model_picker, custom_model,
          button, phase, attempt, calls, replies, translated, score, caught, out>>

ui == <<text_input, source_lang, target_lang, model_picker, custom_model>>

(***************************************************************************)
(* Bounds of the model.                                                    *)
(***************************************************************************)
MaxReplyLen == 4

(***************************************************************************)
(* Python values.                                                          *)
(***************************************************************************)
None == <<"<None>">>
NoScore == [k |-> "None"]
NoExc == [type |-> "none", msg |-> <<>>]
NoTemp == "omitted"

(***************************************************************************)
(* str methods.                                                            *)
(***************************************************************************)
Whitespace == {" ", "\t", "\n"}

LowerChar(c) ==
    CASE c = "A" -> "a"
      [] c = "B" -> "b"
      [] c = "C" -> "c"
      [] c = "D" -> "d"
      [] c = "E" -> "e"
      [] c = "F" -> "f"
      [] c = "G" -> "g"
      [] c = "H" -> "h"
      [] c = "I" -> "i"
      [] c = "J" -> "j"
      [] c = "K" -> "k"
      [] c = "L" -> "l"
      [] c = "M" -> "m"
      [] c = "N" -> "n"
      [] c = "O" -> "o"
      [] c = "P" -> "p"
      [] c = "Q" -> "q"
      [] c = "R" -> "r"
      [] c = "S" -> "s"
      [] c = "T" -> "t"
      [] c = "U" -> "u"
      [] c = "V" -> "v"
      [] c = "W" -> "w"
      [] c = "X" -> "x"
      [] c = "Y" -> "y"
      [] c = "Z" -> "z"
      [] OTHER -> c

lower(s) == [i \in 1..Len(s) |-> LowerChar(s[i])]

RECURSIVE lstrip(_)
lstrip(s) ==
    IF s # <<>> /\ Head(s) \in Whitespace THEN lstrip(Tail(s)) ELSE s

RECURSIVE rstrip(_)
rstrip(s) ==
    IF s # <<>> /\ s[Len(s)] \in Whitespace
    THEN rstrip(SubSeq(s, 1, Len(s) - 1))
    ELSE s

strip(s) == rstrip(lstrip(s))

\* needle in haystack
Contains(haystack, needle) ==
    \E i \in 1..(Len(haystack) - Len(needle) + 1) :
        SubSeq(haystack, i, i + Len(needle) - 1) = needle

temperature_word == <<"t","e","m","p","e","r","a","t","u","r","e">>

(***************************************************************************)
(* float(str): optional sign, then nan | inf | infinity in any case, or a  *)
(* decimal number with optional fraction and exponent; digits may be       *)
(* grouped by single underscores.  A float is the record                   *)
(* [k |-> "num", neg, mant, e10] standing for (-1)^neg * mant * 10^e10     *)
(* with mant free of trailing zeros, or [k |-> "nan"], [k |-> "inf", neg]. *)
(***************************************************************************)
Digits == {"0", "1", "2", "3", "4", "5", "6", "7", "8", "9"}

DigitVal(c) ==
    CASE c = "0" -> 0 [] c = "1" -> 1 [] c = "2" -> 2 [] c = "3" -> 3
      [] c = "4" -> 4 [] c = "5" -> 5 [] c = "6" -> 6 [] c = "7" -> 7
      [] c = "8" -> 8 [] c = "9" -> 9

IsDigitAt(r, i) == i <= Len(r) /\ r[i] \in Digits

\* index just after the digit run that continues at i
RECURSIVE DigitsTail(_, _)
DigitsTail(r, i) ==
    IF IsDigitAt(r, i) THEN DigitsTail(r, i + 1)
    ELSE IF i <= Len(r) /\ r[i] = "_" /\ IsDigitAt(r, i + 1)
         THEN DigitsTail(r, i + 2)
         ELSE i

\* index just after the digit part starting at i (i itself when there is none)
DigitsEnd(r, i) == IF IsDigitAt(r, i) THEN DigitsTail(r, i + 1) ELSE i

\* value of the digits of r[i..j-1], underscores skipped, continuing acc
RECURSIVE DigitsValue(_, _, _, _)
DigitsValue(r, i, j, acc) ==
    IF i >= j THEN acc
    ELSE IF r[i] = "_" THEN DigitsValue(r, i + 1, j, acc)
         ELSE DigitsValue(r, i + 1, j, acc * 10 + DigitVal(r[i]))

\* number of digits in r[i..j-1]
RECURSIVE DigitsCount(_, _, _)
DigitsCount(r, i, j) ==
    IF i >= j THEN 0
    ELSE (IF r[i] = "_" THEN 0 ELSE 1) + DigitsCount(r, i + 1, j)

RECURSIVE Normalise(_, _, _)
Normalise(neg, mant, e10) ==
    IF mant = 0 THEN [k |-> "num", neg |-> neg, mant |-> 0, e10 |-> 0]
    ELSE IF mant % 10 = 0 THEN Normalise(neg, mant \div 10, e10 + 1)
         ELSE [k |-> "num", neg |-> neg, mant |-> mant, e10 |-> e10]

ValueError == [k |-> "ValueError"]

\* the unsigned part of a float literal
ParseUnsigned(r, neg) ==
    LET low == lower(r)
        a == DigitsEnd(r, 1)
        hasDot == a <= Len(r) /\ r[a] = "."
        b == IF hasDot THEN DigitsEnd(r, a + 1) ELSE a
        hasExp == b <= Len(r) /\ r[b] \in {"e", "E"}
        expNeg == hasExp /\ b + 1 <= Len(r) /\ r[b + 1] = "-"
        c == IF hasExp /\ b + 1 <= Len(r) /\ r[b + 1] \in {"+", "-"}
             THEN b + 2 ELSE b + 1
        d == IF hasExp THEN DigitsEnd(r, c) ELSE b
        mantOK == a > 1 \/ (hasDot /\ b > a + 1)
        expOK == hasExp => d > c
        mant == DigitsValue(r, a + 1, b, DigitsValue(r, 1, a, 0))
        fracLen == IF hasDot THEN DigitsCount(r, a + 1, b) ELSE 0
        expAbs == IF hasExp THEN DigitsValue(r, c, d, 0) ELSE 0
        exp == IF expNeg THEN 0 - expAbs ELSE expAbs
    IN  IF low = <<"n", "a", "n">> THEN [k |-> "nan"]
        ELSE IF low \in {<<"i", "n", "f">>,
                         <<"i", "n", "f", "i", "n", "i", "t", "y">>}
             THEN [k |-> "inf", neg |-> neg]
        ELSE IF mantOK /\ expOK /\ d = Len(r) + 1
             THEN Normalise(neg, mant, exp - fracLen)
             ELSE ValueError

\* float(s): the parsed value, or ValueError when float raises
float(s) ==
    LET t == strip(s)
    IN  IF t = <<>> THEN ValueError
        ELSE IF t[1] \in {"+", "-"} THEN ParseUnsigned(Tail(t), t[1] = "-")
        ELSE ParseUnsigned(t, FALSE)

(***************************************************************************)
(* String literals of the script, character by character.                  *)
(***************************************************************************)

M_gpt_5 ==
    <<"g", "p", "t", "-", "5">>

M_gpt_5_pro ==
    <<"g", "p", "t", "-", "5", "-", "p", "r", "o">>

M_gpt_5_mini ==
    <<"g", "p", "t", "-", "5", "-", "m", "i", "n", "i">>

M_gpt_5_nano ==
    <<"g", "p", "t", "-", "5", "-", "n", "a", "n", "o">>

M_gpt_41 ==
    <<"g", "p", "t", "-", "4", ".", "1">>

M_gpt_41_mini ==
    <<"g", "p", "t", "-", "4", ".", "1", "-", "m", "i", "n", "i">>

M_gpt_41_nano ==
    <<"g", "p", "t", "-", "4", ".", "1", "-", "n", "a", "n", "o">>

M_gpt_4o ==
    <<"g", "p", "t", "-", "4", "o">>

M_gpt_4o_mini ==
    <<"g", "p", "t", "-", "4", "o", "-", "m", "i", "n", "i">>

M_gpt_4 ==
    <<"g", "p", "t", "-", "4">>

M_gpt_35_turbo ==
    <<"g", "p", "t", "-", "3", ".", "5", "-", "t", "u", "r", "b", "o">>

COMMON_MODELS ==
    <<M_gpt_5,
      M_gpt_5_pro,
      M_gpt_5_mini,
      M_gpt_5_nano,
      M_gpt_41,
      M_gpt_41_mini,
      M_gpt_41_nano,
      M_gpt_4o,
      M_gpt_4o_mini,
      M_gpt_4,
      M_gpt_35_turbo>>

SelectEntry ==
    <<"-", "-", " ", "S", "e", "l", "e", "c", "t", " ", "m", "o", "d", "e",
      "l", " ", "-", "-">>

CustomEntry ==
    <<"C", "u", "s", "t", "o", "m", " ", "m", "o", "d", "e", "l", " ", "n",
      "a", "m", "e">>

DefaultModel ==
    <<"g", "p", "t", "-", "4", ".", "1">>

English ==
    <<"E", "n", "g", "l", "i", "s", "h">>

Tamil ==
    <<"T", "a", "m", "i", "l">>

MsgEnterText ==
    <<"P", "l", "e", "a", "s", "e", " ", "e", "n", "t", "e", "r", " ", "t",
      "h", "e", " ", "t", "e", "x", "t", " ", "t", "o", " ", "t", "r", "a",
      "n", "s", "l", "a", "t", "e", ".">>

MsgBothLangs ==
    <<"P", "l", "e", "a", "s", "e", " ", "p", "r", "o", "v", "i", "d", "e",
      " ", "b", "o", "t", "h", " ", "s", "o", "u", "r", "c", "e", " ", "a",
      "n", "d", " ", "t", "a", "r", "g", "e", "t", " ", "l", "a", "n", "g",
      "u", "a", "g", "e", "s", ".">>

MsgSameLang ==
    <<"S", "o", "u", "r", "c", "e", " ", "a", "n", "d", " ", "t", "a", "r",
      "g", "e", "t", " ", "l", "a", "n", "g", "u", "a", "g", "e", "s", " ",
      "a", "r", "e", " ", "t", "h", "e", " ", "s", "a", "m", "e", ".">>

MsgTranslatedText ==
    <<"T", "r", "a", "n", "s", "l", "a", "t", "e", "d", " ", "T", "e", "x",
      "t">>

MsgNoParse ==
    <<"C", "o", "u", "l", "d", " ", "n", "o", "t", " ", "p", "a", "r", "s",
      "e", " ", "a", " ", "n", "u", "m", "e", "r", "i", "c", " ", "s", "i",
      "m", "i", "l", "a", "r", "i", "t", "y", " ", "s", "c", "o", "r", "e",
      " ", "f", "r", "o", "m", " ", "t", "h", "e", " ", "m", "o", "d", "e",
      "l", " ", "r", "e", "s", "p", "o", "n", "s", "e", ".">>

MsgErrHead ==
    <<"E", "r", "r", "o", "r", " ", "c", "a", "l", "l", "i", "n", "g", " ",
      "m", "o", "d", "e", "l", " ", "'">>

MsgErrMid ==
    <<"'", ":", " ">>

(***************************************************************************)
(* Values the user can put in the widgets, and values the remote service   *)
(* can answer with.                                                        *)
(***************************************************************************)
Texts == {<<>>, <<" ", "\n">>, <<"h", "i">>}

Langs == {<<>>, <<" ">>, English, <<" ", "e", "n", "g", "l", "i", "s", "h", " ">>, Tamil}

CustomNames ==
    {<<>>, DefaultModel,
     <<"m", "y", "-", "T", "e", "m", "p", "e", "r", "a", "t", "u", "r", "e">>}

PickerOptions ==
    {SelectEntry, CustomEntry} \cup {COMMON_MODELS[i] : i \in 1..Len(COMMON_MODELS)}

TranslatorContents == {None, <<>>, <<"o", "k">>, <<" ", "o", "k", "\n">>}

ValidatorContents ==
    {None, <<>>, <<"0", ".", "8">>, <<" ", "8", " ">>, <<"n", "a">>,
     <<"n", "a", "n">>, <<"0", ".", "8", " ", "a">>}

ReplyAlphabet == {"0", "8", ".", " ", "-", "n", "a"}

BoundedContents == UNION {[1..n -> ReplyAlphabet] : n \in 0..MaxReplyLen}

Exc(type, msg) == [type |-> type, msg |-> msg]

\* failures of client.chat.completions.create for a request naming model m
RemoteErrors(m) ==
    { Exc("AuthError", <<"b", "a", "d", " ", "k", "e", "y">>),
      Exc("NetworkError", <<"t", "i", "m", "e", "o", "u", "t">>),
      Exc("RemoteServiceError", <<"o", "v", "e", "r", "l", "o", "a", "d">>),
      Exc("RemoteServiceError", <<"n", "o", " ", "m", "o", "d", "e", "l", " ">> \o m),
      Exc("ModelRejectedParameterError",
          <<"u", "n", "s", "u", "p", "p", "o", "r", "t", "e", "d", " ">>
              \o temperature_word) }

\* None.strip() raises
AttributeError == Exc("AttributeError", <<"N", "o", "n", "e", "T", "y", "p", "e">>)

str(e) == e.msg

(***************************************************************************)
(* The script.                                                             *)
(***************************************************************************)
selected_model ==
    IF model_picker = CustomEntry THEN custom_model
    ELSE IF model_picker # SelectEntry THEN model_picker
    ELSE DefaultModel

\* guard with the labels compared without .lower()
guard_case_sensitive(text, src, tgt) ==
    IF strip(text) = <<>> THEN "empty_text"
    ELSE IF strip(src) = <<>> \/ strip(tgt) = <<>> THEN "empty_lang"
    ELSE IF strip(src) = strip(tgt) THEN "same_lang"
    ELSE "pass"

\* the guard clauses of the trigger: which branch of the if/elif chain runs
guard(text, src, tgt) ==
    IF strip(text) = <<>> THEN "empty_text"
    ELSE IF strip(src) = <<>> \/ strip(tgt) = <<>> THEN "empty_lang"
    ELSE IF lower(strip(src)) = lower(strip(tgt)) THEN "same_lang"
    ELSE "pass"

guard_message(g) ==
    CASE g = "empty_text" -> [kind |-> "error", text |-> MsgEnterText]
      [] g = "empty_lang" -> [kind |-> "error", text |-> MsgBothLangs]
      [] g = "same_lang" -> [kind |-> "warning", text |-> MsgSameLang]

\* the f-string prompts, as their fixed parts and interpolated values
translate_prompt(text, src, tgt) ==
    <<"Translate the following text from ", src, " to ", tgt, " Text: ", text>>

validate_prompt(original, trans, src, tgt) ==
    <<"Compare. Original (", src, "): ", original, " Translated (", tgt, "): ", trans>>

translate_request(text, src, tgt, model) ==
    [fn |-> "semantic_translate",
     model |-> model,
     messages |-> <<[role |-> "system", content |-> <<"You are a semantic translator">>],
                    [role |-> "user", content |-> translate_prompt(text, src, tgt)]>>,
     temperature |-> "0.3"]

validate_request(original, trans, src, tgt, model) ==
    [fn |-> "validate_semantics",
     model |-> model,
     messages |-> <<[role |-> "user", content |-> validate_prompt(original, trans, src, tgt)]>>,
     temperature |-> "0"]

\* retry_request with the temperature left in
retry_request_unchanged(req) == req

\* the second create() call of either function
retry_request(req) == [req EXCEPT !.temperature = NoTemp]

\* "temperature" in str(e).lower()
is_temperature_error(e) == Contains(lower(str(e)), temperature_word)

\* retries with the retry itself retried
retries_again(att, e) == is_temperature_error(e)

\* the except branch that retries: only reachable from the first call
retries(att, e) == att = 1 /\ is_temperature_error(e)

Returned(c) == [ok |-> TRUE, content |-> c, exc |-> NoExc]
Raised(e) == [ok |-> FALSE, content |-> None, exc |-> e]

\* float(content.strip()) inside try/except Exception: return None
parse_score(c) ==
    IF c = None THEN NoScore
    ELSE IF float(strip(c)) = ValueError THEN NoScore
    ELSE float(strip(c))

(***************************************************************************)
(* f"{score:.2f}".  A tie (a remainder of exactly one half) is rounded to  *)
(* even here; no reply over the digits of the model produces one.          *)
(***************************************************************************)
DigitChar(d) == <<"0", "1", "2", "3", "4", "5", "6", "7", "8", "9">>[d + 1]

RECURSIVE IntStr(_)
IntStr(n) == IF n < 10 THEN <<DigitChar(n)>> ELSE IntStr(n \div 10) \o <<DigitChar(n % 10)>>

RECURSIVE Pow10(_)
Pow10(n) == IF n <= 0 THEN 1 ELSE 10 * Pow10(n - 1)

Hundredths(v) ==
    IF v.e10 >= -2 THEN v.mant * Pow10(v.e10 + 2)
    ELSE LET p == Pow10(0 - v.e10 - 2)
             q == v.mant \div p
             r == v.mant % p
         IN  IF 2 * r > p THEN q + 1
             ELSE IF 2 * r < p THEN q
             ELSE q + (q % 2)

format_2f(v) ==
    CASE v.k = "nan" -> <<"n", "a", "n">>
      [] v.k = "inf" -> (IF v.neg THEN <<"-">> ELSE <<>>) \o <<"i", "n", "f">>
      [] v.k = "num" ->
            LET h == Hundredths(v)
            IN  (IF v.neg THEN <<"-">> ELSE <<>>)
                \o IntStr(h \div 100) \o <<".">>
                \o <<DigitChar((h % 100) \div 10), DigitChar(h % 10)>>

\* f"Error calling model `{selected_model}`: {e}" (the backtick is written ')
error_text(model, e) == MsgErrHead \o model \o MsgErrMid \o str(e)

(***************************************************************************)
(* Widgets.  Any change of a widget reruns the script with the button not  *)
(* pressed: the page is redrawn without results.                           *)
(***************************************************************************)
NoCalls ==
    /\ attempt' = 0
    /\ calls' = <<>>
    /\ replies' = <<>>
    /\ translated' = None
    /\ score' = NoScore
    /\ caught' = NoExc

Rerun ==
    /\ button' = FALSE
    /\ phase' = "Idle"
    /\ NoCalls
    /\ out' = <<>>

EditText(t) ==
    /\ phase = "Idle"
    /\ text_input' = t
    /\ Rerun
    /\ UNCHANGED <<source_lang, target_lang, model_picker, custom_model>>

EditSource(l) ==
    /\ phase = "Idle"
    /\ source_lang' = l
    /\ Rerun
    /\ UNCHANGED <<text_input, target_lang, model_picker, custom_model>>

EditTarget(l) ==
    /\ phase = "Idle"
    /\ target_lang' = l
    /\ Rerun
    /\ UNCHANGED <<text_input, source_lang, model_picker, custom_model>>

\* the custom-name field exists only while the picker is on Custom, and
\* appears with its default value
PickModel(p) ==
    /\ phase = "Idle"
    /\ model_picker' = p
    /\ custom_model' = IF p = CustomEntry THEN DefaultModel ELSE <<>>
    /\ Rerun
    /\ UNCHANGED <<text_input, source_lang, target_lang>>

EditCustom(c) ==
    /\ phase = "Idle"
    /\ model_picker = CustomEntry
    /\ custom_model' = c
    /\ Rerun
    /\ UNCHANGED <<text_input, source_lang, target_lang, model_picker>>

(***************************************************************************)
(* The Translate button.  A guard that fails renders its message and the   *)
(* run ends; otherwise semantic_translate sends its first request.         *)
(***************************************************************************)
TranslateRejected ==
    /\ phase = "Idle"
    /\ guard(text_input, source_lang, target_lang) # "pass"
    /\ button' = TRUE
    /\ phase' = "Idle"
    /\ NoCalls
    /\ out' = <<guard_message(guard(text_input, source_lang, target_lang))>>
    /\ UNCHANGED ui

TranslateAccepted ==
    /\ phase = "Idle"
    /\ guard(text_input, source_lang, target_lang) = "pass"
    /\ button' = TRUE
    /\ phase' = "Translating"
    /\ attempt' = 1
    /\ calls' = <<translate_request(text_input, source_lang, target_lang, selected_model)>>
    /\ replies' = <<>>
    /\ translated' = None
    /\ score' = NoScore
    /\ caught' = NoExc
    /\ out' = <<>>
    /\ UNCHANGED ui

\* Abort with the page cleared before the error is rendered
Abort_clearing(e) ==
    /\ caught' = e
    /\ out' = <<[kind |-> "error", text |-> error_text(selected_model, e)]>>
    /\ phase' = "Idle"
    /\ attempt' = 0

\* Abort with nothing rendered
Abort_silent(e) ==
    /\ caught' = e
    /\ out' = out
    /\ phase' = "Idle"
    /\ attempt' = 0

(***************************************************************************)
(* The except clause of the trigger: the exception is rendered after what  *)
(* the run has already rendered, and the run ends.                         *)
(***************************************************************************)
Abort(e) ==
    /\ caught' = e
    /\ out' = Append(out, [kind |-> "error", text |-> error_text(selected_model, e)])
    /\ phase' = "Idle"
    /\ attempt' = 0

InFlight == calls[Len(calls)]

(***************************************************************************)
(* semantic_translate, from the answer to its request in flight.           *)
(***************************************************************************)
semantic_translate_returns(c) ==
    /\ phase = "Translating"
    /\ replies' = Append(replies, Returned(c))
    /\ IF c = None
       THEN /\ Abort(AttributeError)
            /\ UNCHANGED <<calls, translated>>
       ELSE /\ translated' = strip(c)
            /\ out' = out \o <<[kind |-> "subheader", text |-> MsgTranslatedText],
                               [kind |-> "write", text |-> strip(c)]>>
            /\ phase' = "Validating"
            /\ attempt' = 1
            /\ calls' = Append(calls, validate_request(text_input, strip(c), source_lang,
                                                       target_lang, selected_model))
            /\ UNCHANGED caught
    /\ UNCHANGED <<ui, button, score>>

semantic_translate_retries(e) ==
    /\ phase = "Translating"
    /\ e \in RemoteErrors(InFlight.model)
    /\ retries(attempt, e)
    /\ replies' = Append(replies, Raised(e))
    /\ calls' = Append(calls, retry_request(InFlight))
    /\ attempt' = 2
    /\ UNCHANGED <<ui, button, phase, translated, score, caught, out>>

\* semantic_translate_raises with the exception swallowed: the trigger goes on
semantic_translate_raises_swallowed(e) ==
    /\ phase = "Translating"
    /\ e \in RemoteErrors(InFlight.model)
    /\ ~retries(attempt, e)
    /\ replies' = Append(replies, Raised(e))
    /\ phase' = "Validating"
    /\ attempt' = 1
    /\ calls' = Append(calls, validate_request(text_input, None, source_lang,
                                               target_lang, selected_model))
    /\ UNCHANGED <<ui, button, translated, score, caught, out>>

semantic_translate_raises(e) ==
    /\ phase = "Translating"
    /\ e \in RemoteErrors(InFlight.model)
    /\ ~retries(attempt, e)
    /\ replies' = Append(replies, Raised(e))
    /\ Abort(e)
    /\ UNCHANGED <<ui, button, calls, translated, score>>

\* validate_semantics_returns without the try/except around float()
validate_semantics_returns_unguarded(c) ==
    /\ phase = "Validating"
    /\ replies' = Append(replies, Returned(c))
    /\ IF parse_score(c) = NoScore
       THEN /\ Abort(Exc("ValueError", <<"n", "o", "t", " ", "a", " ", "f", "l", "o", "a", "t">>))
            /\ UNCHANGED score
       ELSE /\ score' = parse_score(c)
            /\ out' = Append(out, [kind |-> "metric", text |-> format_2f(parse_score(c))])
            /\ phase' = "Idle"
            /\ attempt' = 0
            /\ UNCHANGED caught
    /\ UNCHANGED <<ui, button, calls, translated>>

(***************************************************************************)
(* validate_semantics, from the answer to its request in flight.           *)
(***************************************************************************)
validate_semantics_returns(c) ==
    /\ phase = "Validating"
    /\ replies' = Append(replies, Returned(c))
    /\ score' = parse_score(c)
    /\ out' = Append(out, IF parse_score(c) # NoScore
                          THEN [kind |-> "metric", text |-> format_2f(parse_score(c))]
                          ELSE [kind |-> "info", text |-> MsgNoParse])
    /\ phase' = "Idle"
    /\ attempt' = 0
    /\ UNCHANGED <<ui, button, calls, translated, caught>>

validate_semantics_retries(e) ==
    /\ phase = "Validating"
    /\ e \in RemoteErrors(InFlight.model)
    /\ retries(attempt, e)
    /\ replies' = Append(replies, Raised(e))
    /\ calls' = Append(calls, retry_request(InFlight))
    /\ attempt' = 2
    /\ UNCHANGED <<ui, button, phase, translated, score, caught, out>>

validate_semantics_raises(e) ==
    /\ phase = "Validating"
    /\ e \in RemoteErrors(InFlight.model)
    /\ ~retries(attempt, e)
    /\ replies' = Append(replies, Raised(e))
    /\ Abort(e)
    /\ UNCHANGED <<ui, button, calls, translated, score>>

(***************************************************************************)
(* Specifications.                                                         *)
(***************************************************************************)
Init ==
    /\ text_input = <<>>
    /\ source_lang = English
    /\ target_lang = Tamil
    /\ model_picker = SelectEntry
    /\ custom_model = <<>>
    /\ button = FALSE
    /\ phase = "Idle"
    /\ attempt = 0
    /\ calls = <<>>
    /\ replies = <<>>
    /\ translated = None
    /\ score = NoScore
    /\ caught = NoExc
    /\ out = <<>>

\* the models a request can name, and the failures the service can answer with
Models == CustomNames \cup {DefaultModel} \cup {COMMON_MODELS[i] : i \in 1..Len(COMMON_MODELS)}

AllRemoteErrors == UNION {RemoteErrors(m) : m \in Models}

RemoteAnswers ==
    \/ \E c \in TranslatorContents : semantic_translate_returns(c)
    \/ \E e \in AllRemoteErrors : semantic_translate_retries(e)
    \/ \E e \in AllRemoteErrors : semantic_translate_raises(e)
    \/ \E c \in ValidatorContents : validate_semantics_returns(c)
    \/ \E e \in AllRemoteErrors : validate_semantics_retries(e)
    \/ \E e \in AllRemoteErrors : validate_semantics_raises(e)

Next ==
    \/ \E t \in Texts : EditText(t)
    \/ \E l \in Langs : EditSource(l)
    \/ \E l \in Langs : EditTarget(l)
    \/ \E p \in PickerOptions : PickModel(p)
    \/ \E c \in CustomNames : EditCustom(c)
    \/ TranslateRejected
    \/ TranslateAccepted
    \/ \E c \in TranslatorContents : semantic_translate_returns(c)
    \/ \E e \in AllRemoteErrors : semantic_translate_retries(e)
    \/ \E e \in AllRemoteErrors : semantic_translate_raises(e)
    \/ \E c \in ValidatorContents : validate_semantics_returns(c)
    \/ \E e \in AllRemoteErrors : validate_semantics_retries(e)
    \/ \E e \in AllRemoteErrors : validate_semantics_raises(e)

Spec == Init /\ [][Next]_vars

\* every remote call eventually returns or fails
FairSpec == Spec /\ WF_vars(RemoteAnswers)

\* the state in which validate_semantics waits for the answer to its first
\* request, after an accepted trigger whose translation came back at once
InitParse ==
    /\ text_input = <<"h", "i">>
    /\ source_lang = English
    /\ target_lang = Tamil
    /\ model_picker = SelectEntry
    /\ custom_model = <<>>
    /\ button = TRUE
    /\ phase = "Validating"
    /\ attempt = 1
    /\ calls = <<translate_request(<<"h", "i">>, English, Tamil, DefaultModel),
                 validate_request(<<"h", "i">>, <<"o", "k">>, English, Tamil, DefaultModel)>>
    /\ replies = <<Returned(<<"o", "k">>)>>
    /\ translated = <<"o", "k">>
    /\ score = NoScore
    /\ caught = NoExc
    /\ out = <<[kind |-> "subheader", text |-> MsgTranslatedText],
               [kind |-> "write", text |-> <<"o", "k">>]>>

NextParse == \E c \in BoundedContents : validate_semantics_returns(c)

\* validate_semantics applied to every reply text up to MaxReplyLen
SpecParse == InitParse /\ [][NextParse]_vars

(***************************************************************************)
(* Vocabulary of the properties.                                           *)
(***************************************************************************)
IsBlank(s) == \A i \in 1..Len(s) : s[i] \in Whitespace

\* t is c without its leading and trailing whitespace
Trimmed(c, t) ==
    \E i \in 1..(Len(c) + 1) : \E j \in 0..Len(c) :
        /\ t = SubSeq(c, i, j)
        /\ \A k \in 1..(i - 1) : c[k] \in Whitespace
        /\ \A k \in (j + 1)..Len(c) : c[k] \in Whitespace
        /\ t # <<>> => (t[1] \notin Whitespace /\ t[Len(t)] \notin Whitespace)

EndsWith(s, suffix) ==
    /\ Len(suffix) <= Len(s)
    /\ SubSeq(s, Len(s) - Len(suffix) + 1, Len(s)) = suffix

CallsOf(fn) == {i \in DOMAIN calls : calls[i].fn = fn}

Kinds(o) == [i \in 1..Len(o) |-> o[i].kind]

HasKind(o, k) == \E i \in 1..Len(o) : o[i].kind = k

\* a run the button started has ended
RunEnded == button /\ phase = "Idle"

LastReply == replies[Len(replies)]

(***************************************************************************)
(* C1.  A trigger whose text is blank, or one of whose language labels is  *)
(* blank, or whose labels are equal once trimmed and lower-cased, sends no *)
(* request and renders exactly one message: an error in the blank cases, a *)
(* warning in the equal-labels case.                                       *)
(***************************************************************************)
C1_BlankInput ==
    IsBlank(text_input) \/ IsBlank(source_lang) \/ IsBlank(target_lang)

C1_SameLabels == lower(strip(source_lang)) = lower(strip(target_lang))

C1_GuardedTriggerSendsNothing ==
    (button /\ (C1_BlankInput \/ C1_SameLabels)) =>
        /\ phase = "Idle"
        /\ calls = <<>>
        /\ Len(out) = 1
        /\ out[1].kind = IF C1_BlankInput THEN "error" ELSE "warning"

C1_Witness ==
    /\ button
    /\ ~C1_BlankInput
    /\ C1_SameLabels
    /\ source_lang # target_lang
    /\ Kinds(out) = <<"warning">>

(***************************************************************************)
(* C2.  When the first request of semantic_translate (temperature 0.3) is  *)
(* rejected for its decoding parameter and the retry returns a text, two   *)
(* requests have been sent by semantic_translate, the second has the model *)
(* and messages of the first and no temperature, and the value returned is *)
(* the retry's text without leading and trailing whitespace.               *)
(***************************************************************************)
C2_RetrySucceeded ==
    /\ Len(replies) >= 2
    /\ calls[1].fn = "semantic_translate"
    /\ ~replies[1].ok
    /\ replies[1].exc.type = "ModelRejectedParameterError"
    /\ replies[2].ok
    /\ replies[2].content # None

C2_FallbackRetry ==
    C2_RetrySucceeded =>
        /\ Cardinality(CallsOf("semantic_translate")) = 2
        /\ calls[1].temperature = "0.3"
        /\ calls[2].fn = "semantic_translate"
        /\ calls[2].model = calls[1].model
        /\ calls[2].messages = calls[1].messages
        /\ calls[2].temperature = NoTemp
        /\ Trimmed(replies[2].content, translated)

C2_Witness ==
    /\ C2_RetrySucceeded
    /\ replies[2].content = <<" ", "o", "k", "\n">>
    /\ translated = <<"o", "k">>

(***************************************************************************)
(* C3.  validate_semantics is invoked only after semantic_translate has    *)
(* returned in the same run; when semantic_translate raises, no request of *)
(* validate_semantics is sent and the rendered error ends with the text of *)
(* the exception.                                                          *)
(***************************************************************************)
C3_TranslatorFailed == RunEnded /\ calls # <<>> /\ translated = None

C3_ValidatorOnlyAfterTranslator ==
    /\ CallsOf("validate_semantics") # {} =>
          /\ translated # None
          /\ \E i \in DOMAIN replies :
                /\ calls[i].fn = "semantic_translate"
                /\ replies[i].ok
                /\ replies[i].content # None
                /\ \A j \in CallsOf("validate_semantics") : j > i
    /\ C3_TranslatorFailed =>
          /\ CallsOf("validate_semantics") = {}
          /\ caught # NoExc
          /\ ~LastReply.ok => caught = LastReply.exc
          /\ Kinds(out) = <<"error">>
          /\ EndsWith(out[1].text, str(caught))

C3_Witness ==
    /\ C3_TranslatorFailed
    /\ ~LastReply.ok
    /\ LastReply.exc.type = "RemoteServiceError"
    /\ Len(calls) = 1

(***************************************************************************)
(* C4.  As stated: when a run ends on an unrecovered AuthError,            *)
(* NetworkError or RemoteServiceError of either function, the page holds   *)
(* the error message and neither a translated text nor a score.            *)
(***************************************************************************)
C4_RemoteFailure ==
    /\ RunEnded
    /\ caught.type \in {"AuthError", "NetworkError", "RemoteServiceError"}

C4_NoPartialResults ==
    C4_RemoteFailure =>
        /\ HasKind(out, "error")
        /\ ~HasKind(out, "write")
        /\ ~HasKind(out, "subheader")
        /\ ~HasKind(out, "metric")

(***************************************************************************)
(* C4, amended.  When the failure is raised by semantic_translate the page *)
(* holds the error message alone; when it is raised by validate_semantics  *)
(* the page holds the translated text, rendered before the validator was   *)
(* called, followed by the error message; in both cases the message ends   *)
(* with the text of the exception and no score or parse notice is shown.   *)
(***************************************************************************)
C4_AbortKeepsOnlyRenderedTranslation ==
    C4_RemoteFailure =>
        /\ Kinds(out) = IF translated = None
                        THEN <<"error">>
                        ELSE <<"subheader", "write", "error">>
        /\ translated # None => out[2].text = translated
        /\ EndsWith(out[Len(out)].text, str(caught))
        /\ score = NoScore

C4_Witness ==
    /\ C4_RemoteFailure
    /\ translated # None
    /\ calls[Len(calls)].fn = "validate_semantics"
    /\ caught.type = "NetworkError"

(***************************************************************************)
(* C5.  After a reply of the validator's request, validate_semantics       *)
(* returns the number the trimmed reply denotes when that text is a        *)
(* well-formed numeric literal (sign, digits, optional decimal point), and *)
(* None otherwise (a word, the empty text, a number followed by more       *)
(* tokens, no content); it never raises.                                   *)
(***************************************************************************)
IsDigits(s) == \A i \in 1..Len(s) : s[i] \in Digits

Unsigned(t) == IF t # <<>> /\ t[1] \in {"+", "-"} THEN Tail(t) ELSE t

DotAt(u) == {p \in 1..Len(u) : u[p] = "."}

C5_WellFormed(t) ==
    LET u == Unsigned(t)
    IN  \/ u # <<>> /\ IsDigits(u)
        \/ \E p \in DotAt(u) :
              /\ Len(u) > 1
              /\ IsDigits(SubSeq(u, 1, p - 1))
              /\ IsDigits(SubSeq(u, p + 1, Len(u)))

RECURSIVE IntOf(_)
IntOf(s) == IF s = <<>> THEN 0 ELSE 10 * IntOf(SubSeq(s, 1, Len(s) - 1)) + DigitVal(s[Len(s)])

IsDigitChar(c) == c \in Digits

\* v is the number the well-formed literal t denotes
C5_Denotes(t, v) ==
    LET u == Unsigned(t)
        fracLen == IF DotAt(u) = {} THEN 0 ELSE Len(u) - (CHOOSE p \in DotAt(u) : TRUE)
    IN  /\ v.k = "num"
        /\ v.neg = (t[1] = "-")
        /\ v.e10 + fracLen >= 0
        /\ v.mant * Pow10(v.e10 + fracLen) = IntOf(SelectSeq(u, IsDigitChar))

C5_ValidatorAnswered ==
    /\ RunEnded
    /\ calls # <<>>
    /\ Len(replies) = Len(calls)
    /\ calls[Len(calls)].fn = "validate_semantics"
    /\ LastReply.ok

C5_ParsesNumbersOnly ==
    C5_ValidatorAnswered =>
        /\ caught = NoExc
        /\ LET c == LastReply.content
           IN  IF c = None THEN score = NoScore
               ELSE \A i \in 1..(Len(c) + 1) : \A j \in 0..Len(c) :
                       LET t == SubSeq(c, i, j)
                       IN  Trimmed(c, t) =>
                             IF C5_WellFormed(t) THEN C5_Denotes(t, score)
                             ELSE score = NoScore

(***************************************************************************)
(* C6.  When semantic_translate returned and the validator's request was   *)
(* answered with a reply that float() does not accept, the run ends with   *)
(* the translated text followed by the could-not-parse notice, and no      *)
(* error is rendered.                                                      *)
(***************************************************************************)
C6_UnparsedReply ==
    /\ C5_ValidatorAnswered
    /\ translated # None
    /\ (LastReply.content = None \/ float(LastReply.content) = ValueError)

C6_NoScoreNotice ==
    C6_UnparsedReply =>
        /\ Kinds(out) = <<"subheader", "write", "info">>
        /\ out[2].text = translated
        /\ out[3].text = MsgNoParse
        /\ caught = NoExc

C6_Witness ==
    /\ C6_UnparsedReply
    /\ LastReply.content = <<"0", ".", "8", " ", "a">>

(***************************************************************************)
(* C7.  A retry is sent only after a first request that failed with a      *)
(* rejection of the decoding parameter; a first request that fails with    *)
(* anything else is the only request of its function and its exception is  *)
(* the one the trigger catches.                                            *)
(***************************************************************************)
C7_RetryOnlyOnRejection ==
    \A i \in DOMAIN replies :
        /\ (calls[i].temperature # NoTemp /\ ~replies[i].ok
              /\ replies[i].exc.type # "ModelRejectedParameterError") =>
                 /\ Len(calls) = i
                 /\ phase = "Idle"
                 /\ caught = replies[i].exc
        /\ (i + 1 \in DOMAIN calls /\ calls[i + 1].temperature = NoTemp) =>
                 /\ ~replies[i].ok
                 /\ replies[i].exc.type = "ModelRejectedParameterError"

(***************************************************************************)
(* C8.  Each function sends one or two requests per invocation, the second *)
(* only after the first has failed; a failed retry is not retried but      *)
(* caught by the trigger; a run sends at most four requests.               *)
(***************************************************************************)
C8_AtMostOneRetry ==
    /\ Len(calls) <= 4
    /\ Cardinality(CallsOf("semantic_translate")) <= 2
    /\ Cardinality(CallsOf("validate_semantics")) <= 2
    /\ phase = "Translating" => Cardinality(CallsOf("semantic_translate")) >= 1
    /\ phase = "Validating" => Cardinality(CallsOf("validate_semantics")) >= 1
    /\ Len(replies) \in {Len(calls), Len(calls) - 1}
    /\ \A i \in DOMAIN calls :
          calls[i].temperature = NoTemp =>
              /\ i > 1
              /\ calls[i - 1].fn = calls[i].fn
              /\ calls[i - 1].temperature # NoTemp
              /\ ~replies[i - 1].ok
    /\ \A i \in DOMAIN replies :
          (calls[i].temperature = NoTemp /\ ~replies[i].ok) =>
              /\ Len(calls) = i
              /\ phase = "Idle"
              /\ caught = replies[i].exc

C8_Witness ==
    /\ Len(calls) = 4
    /\ Len(replies) = 4
    /\ ~LastReply.ok
    /\ LastReply.exc.type = "ModelRejectedParameterError"
    /\ phase = "Idle"

(***************************************************************************)
(* C9.  The phase moves Idle -> Translating -> Validating -> Idle (or back *)
(* to Idle from Translating), leaves Idle only in a run the button         *)
(* started, and under FairSpec every run that left Idle returns to it.  A  *)
(* run that passed the guards ends with exactly one of: an error message   *)
(* with the exception caught by the trigger, or the translated text        *)
(* followed by a score or by the could-not-parse notice.                   *)
(***************************************************************************)
C9_PhaseStep ==
    phase' # phase =>
        /\ <<phase, phase'>> \in {<<"Idle", "Translating">>,
                                  <<"Translating", "Validating">>,
                                  <<"Translating", "Idle">>,
                                  <<"Validating", "Idle">>}
        /\ phase = "Idle" => button'

C9_Outcome ==
    (RunEnded /\ calls # <<>>) =>
        /\ HasKind(out, "error") # (Kinds(out) \in {<<"subheader", "write", "metric">>,
                                                    <<"subheader", "write", "info">>})
        /\ HasKind(out, "error") <=> caught # NoExc
        /\ ~LastReply.ok => caught = LastReply.exc
        /\ (LastReply.ok /\ translated = None) => caught = AttributeError
        /\ (LastReply.ok /\ translated # None) => caught = NoExc

C9_TriggerReturnsToIdle ==
    /\ [][C9_PhaseStep]_vars
    /\ []C9_Outcome
    /\ ((phase # "Idle") ~> (phase = "Idle"))

C9_Witness ==
    /\ RunEnded
    /\ Kinds(out) = <<"subheader", "write", "metric">>
    /\ Len(calls) = 4

(***************************************************************************)
(* C10.  Every request carries a non-empty model identifier, the same for  *)
(* all requests of a run: "gpt-4.1" for the placeholder entry, the entry   *)
(* itself for a catalog entry, the typed name for the custom entry.        *)
(***************************************************************************)
C10_ModelIsNonEmpty ==
    \A i \in DOMAIN calls :
        /\ calls[i].model # <<>>
        /\ calls[i].model = calls[1].model
        /\ calls[i].model = (CASE model_picker = SelectEntry -> DefaultModel
                               [] model_picker = CustomEntry -> custom_model
                               [] OTHER -> model_picker)

====
